---- MODULE Spec2Model ----
(***************************************************************************)
(* Model of the spreadsheet filter/export program: the desktop processor   *)
(* (excel_processor.py, class ExcelDataProcessor, driven by                *)
(* ExcelProcessorApp) and the web processor (streamlit_app.py, class       *)
(* ExcelDataProcessor, driven by main).                                    *)
(*                                                                         *)
(* A Python str is a sequence of one-character strings, so that regular    *)
(* expressions, substring tests and lower() are computed character by      *)
(* character.  A raised exception is the record field ok = FALSE.          *)
(***************************************************************************)
EXTENDS Integers, Sequences, FiniteSets, TLC

VARIABLES
    app,           \* which program runs: "desktop" or "web"
    file_path,     \* the workbook the front end holds (app.file_path / tmp_file_path)
    date_sheets,   \* desktop: self.date_sheets
    team_leaders,  \* desktop: self.team_leaders
    pc,            \* the caller: "idle" between handlers, "returned" after a call
    last,          \* the call that has just returned: arguments and outcome
    pure           \* the last application of a pure helper: input and output

vars == <<app, file_path, date_sheets, team_leaders, pc, last, pure>>

(***************************************************************************)
(* Bounds of the model.                                                    *)
(***************************************************************************)
MaxSheets == 2       \* sheets per workbook
MaxCols == 2         \* headers per header list given to the column resolver
LongSheetRows == 11  \* rows of the long sheet of the pool

\* streamlit_app.py:63  pd.read_excel(xls, sheet_name=sheet, nrows=10)
HeaderScanRows == 10

(***************************************************************************)
(* Text.                                                                   *)
(***************************************************************************)
Digits == {"0", "1", "2", "3", "4", "5", "6", "7", "8", "9"}

UpperCase == <<"A", "B", "C", "D", "E", "F", "G", "H", "I", "J", "K", "L", "M",
               "N", "O", "P", "Q", "R", "S", "T", "U", "V", "W", "X", "Y", "Z">>

LowerCase == <<"a", "b", "c", "d", "e", "f", "g", "h", "i", "j", "k", "l", "m",
               "n", "o", "p", "q", "r", "s", "t", "u", "v", "w", "x", "y", "z">>

\* int() of one decimal digit
digit_value(c) ==
    CASE c = "0" -> 0 [] c = "1" -> 1 [] c = "2" -> 2 [] c = "3" -> 3
      [] c = "4" -> 4 [] c = "5" -> 5 [] c = "6" -> 6 [] c = "7" -> 7
      [] c = "8" -> 8 [] c = "9" -> 9

\* int() of a string of decimal digits
RECURSIVE int_value(_)
int_value(s) ==
    IF s = <<>> THEN 0
    ELSE 10 * int_value(SubSeq(s, 1, Len(s) - 1)) + digit_value(s[Len(s)])

\* str.lower() of one character
lower_char(c) ==
    IF \E i \in 1..Len(UpperCase) : UpperCase[i] = c
    THEN LowerCase[CHOOSE i \in 1..Len(UpperCase) : UpperCase[i] = c]
    ELSE c

\* str.lower()
lower(s) == [i \in 1..Len(s) |-> lower_char(s[i])]

\* Python's `term in text` on two str
RECURSIVE str_in(_, _)
str_in(term, text) ==
    IF Len(term) > Len(text) THEN FALSE
    ELSE IF SubSeq(text, 1, Len(term)) = term THEN TRUE
    ELSE str_in(term, Tail(text))

(***************************************************************************)
(* is_date_sheet: re.match(r'^\d{2}\.\d{2}\.\d{4}$', sheet_name).          *)
(* re.match anchors at the start; without re.MULTILINE `$` matches at the  *)
(* end of the string and also just before a line break that ends it.       *)
(***************************************************************************)
is_date_sheet(sheet_name) ==
    /\ Len(sheet_name) \in {10, 11}
    /\ \A i \in 1..10 :
          IF i \in {3, 6} THEN sheet_name[i] = "." ELSE sheet_name[i] \in Digits
    /\ Len(sheet_name) = 11 => sheet_name[11] = "\n"

(***************************************************************************)
(* parse_date: datetime.strptime(date_str, '%d.%m.%Y').  The format is     *)
(* compiled to (3[0-1]|[1-2]\d|0[1-9]|[1-9]| [1-9])\.(1[0-2]|0[1-9]|[1-9]) *)
(* \.(\d\d\d\d), matched at the start; text left over, or a day the month  *)
(* does not have, raises ValueError.  The value is the date as the number  *)
(* yyyymmdd, which orders as datetime does.                                *)
(***************************************************************************)
days_in_month(y, m) ==
    IF m = 2
    THEN (IF (y % 4 = 0 /\ y % 100 # 0) \/ y % 400 = 0 THEN 29 ELSE 28)
    ELSE IF m \in {4, 6, 9, 11} THEN 30 ELSE 31

day_token(t) ==
    \/ Len(t) = 2 /\ t[1] = "3" /\ t[2] \in {"0", "1"}
    \/ Len(t) = 2 /\ t[1] \in {"1", "2"} /\ t[2] \in Digits
    \/ Len(t) = 2 /\ t[1] = "0" /\ t[2] \in Digits \ {"0"}
    \/ Len(t) = 1 /\ t[1] \in Digits \ {"0"}
    \/ Len(t) = 2 /\ t[1] = " " /\ t[2] \in Digits \ {"0"}

month_token(t) ==
    \/ Len(t) = 2 /\ t[1] = "1" /\ t[2] \in {"0", "1", "2"}
    \/ Len(t) = 2 /\ t[1] = "0" /\ t[2] \in Digits \ {"0"}
    \/ Len(t) = 1 /\ t[1] \in Digits \ {"0"}

year_token(t) == Len(t) = 4 /\ \A i \in 1..4 : t[i] \in Digits

ValueError == [ok |-> FALSE, val |-> 0]

parse_date(date_str) ==
    LET dots == {i \in 1..Len(date_str) : date_str[i] = "."}
    IN  IF Cardinality(dots) < 2 THEN ValueError
        ELSE
          LET p1 == CHOOSE i \in dots : \A j \in dots : i <= j
              p2 == CHOOSE i \in dots \ {p1} : \A j \in dots \ {p1} : i <= j
              dt == SubSeq(date_str, 1, p1 - 1)
              mt == SubSeq(date_str, p1 + 1, p2 - 1)
              yt == SubSeq(date_str, p2 + 1, Len(date_str))
          IN  IF ~(day_token(dt) /\ month_token(mt) /\ year_token(yt))
              THEN ValueError
              ELSE
                LET d == int_value(SelectSeq(dt, LAMBDA c : c \in Digits))
                    m == int_value(mt)
                    y == int_value(yt)
                IN  IF y >= 1 /\ d <= days_in_month(y, m)
                    THEN [ok |-> TRUE, val |-> y * 10000 + m * 100 + d]
                    ELSE ValueError

(***************************************************************************)
(* Tables.  A DataFrame is its column labels in order and its rows, each   *)
(* row a function from the labels to cells.  A cell is a str or NaN, the   *)
(* missing value pandas gives an empty cell.                               *)
(***************************************************************************)
NaN == <<"NaN">>

EmptyDataFrame == [columns |-> <<>>, rows |-> <<>>]

\* DataFrame.empty
empty(df) == df.rows = <<>> \/ df.columns = <<>>

Range(seq) == {seq[i] : i \in 1..Len(seq)}

SourceSheet == <<"S", "o", "u", "r", "c", "e", "_", "S", "h", "e", "e", "t">>

\* ['team leader', 'team_leader', 'teamleader', 'supervisor']
Terms ==
    << <<"t", "e", "a", "m", " ", "l", "e", "a", "d", "e", "r">>,
       <<"t", "e", "a", "m", "_", "l", "e", "a", "d", "e", "r">>,
       <<"t", "e", "a", "m", "l", "e", "a", "d", "e", "r">>,
       <<"s", "u", "p", "e", "r", "v", "i", "s", "o", "r">> >>

\* any(term in str(col).lower() for term in [...])
is_team_leader_header(col) ==
    \E k \in 1..Len(Terms) : str_in(Terms[k], lower(col))

\* team_leader_cols = [col for col in df.columns if any(...)]
team_leader_cols(columns) == SelectSeq(columns, is_team_leader_header)

\* Series.astype(str): a missing value becomes the text 'nan'
astype_str(cell) == IF cell = NaN THEN <<"n", "a", "n">> ELSE cell

(***************************************************************************)
(* Series.str.contains(pat, case=False, na=False): regex=True is the       *)
(* default, so pat is compiled with re.IGNORECASE and searched in each     *)
(* cell.  The model's requested names are made of letters, digits, spaces, *)
(* "." (any character but a line break) and "(" (which, never closed,      *)
(* makes re.compile raise re.error).                                       *)
(***************************************************************************)
re_compile_ok(pat) == \A i \in 1..Len(pat) : pat[i] # "("

re_match_at(pat, text, k) ==
    \A i \in 1..Len(pat) :
        IF pat[i] = "." THEN text[k + i] # "\n"
        ELSE lower_char(pat[i]) = lower_char(text[k + i])

re_search(pat, text) ==
    \E k \in 0..(Len(text) - Len(pat)) : re_match_at(pat, text, k)

\* df[team_leader_col].astype(str).str.contains(team_leader, case=False, na=False)
str_contains(cell, team_leader) == re_search(team_leader, astype_str(cell))

\* mutant: the rows are kept without the Source_Sheet field
add_source_sheet_omitted(filtered, sheet) == filtered

\* filtered['Source_Sheet'] = sheet
add_source_sheet(filtered, sheet) ==
    [columns |-> IF SourceSheet \in Range(filtered.columns)
                 THEN filtered.columns
                 ELSE Append(filtered.columns, SourceSheet),
     rows |-> [i \in 1..Len(filtered.rows) |->
                  [c \in DOMAIN filtered.rows[i] \cup {SourceSheet} |->
                      IF c = SourceSheet THEN sheet ELSE filtered.rows[i][c]]]]

\* the column labels of pd.concat: those of the frames, in order of first appearance
RECURSIVE concat_columns(_)
concat_columns(frames) ==
    IF frames = <<>> THEN <<>>
    ELSE LET before == concat_columns(SubSeq(frames, 1, Len(frames) - 1))
             f == frames[Len(frames)]
         IN  before \o SelectSeq(f.columns, LAMBDA c : c \notin Range(before))

RECURSIVE concat_rows(_)
concat_rows(frames) ==
    IF frames = <<>> THEN <<>> ELSE Head(frames).rows \o concat_rows(Tail(frames))

\* pd.concat(all_data, ignore_index=True): a row gets NaN in the columns its frame lacks
concat(frames) ==
    LET cols == concat_columns(frames)
        rows == concat_rows(frames)
    IN  [columns |-> cols,
         rows |-> [i \in 1..Len(rows) |->
                      [c \in Range(cols) |->
                          IF c \in DOMAIN rows[i] THEN rows[i][c] ELSE NaN]]]

(***************************************************************************)
(* Workbooks.  A file is readable or not (pd.ExcelFile raises on a file    *)
(* that is not a workbook); a workbook is its sheets in workbook order,    *)
(* each with a name, a header row and data rows.                           *)
(***************************************************************************)
sheet_names(file) == [i \in 1..Len(file.sheets) |-> file.sheets[i].name]

\* pd.ExcelFile(file_path)
ExcelFile(file) == [ok |-> file.readable, val |-> file]

\* pd.read_excel(file_path, sheet_name=sheet, header=0)
read_excel(file, sheet) ==
    IF file.readable /\ \E i \in 1..Len(file.sheets) : file.sheets[i].name = sheet
    THEN LET s == file.sheets[CHOOSE i \in 1..Len(file.sheets) :
                                  file.sheets[i].name = sheet]
         IN  [ok |-> TRUE, val |-> [columns |-> s.columns, rows |-> s.rows]]
    ELSE [ok |-> FALSE, val |-> EmptyDataFrame]

(***************************************************************************)
(* The inputs of the model: header texts, cell values, a pool of sheets,   *)
(* the workbooks built from the pool, requested names and requested dates. *)
(***************************************************************************)
H_Name == <<"N", "a", "m", "e">>
H_Team_Leader == <<"T", "e", "a", "m", "_", "L", "e", "a", "d", "e", "r">>
H_Supervisor_Name == <<"S", "u", "p", "e", "r", "v", "i", "s", "o", "r", " ", "N", "a", "m", "e">>
H_Team_Leader_Spaced == <<"T", "e", "a", "m", " ", "L", "e", "a", "d", "e", "r">>
H_TEAMLEADER == <<"T", "E", "A", "M", "L", "E", "A", "D", "E", "R">>
H_Group == <<"G", "r", "o", "u", "p">>
H_Supervisor == <<"S", "u", "p", "e", "r", "v", "i", "s", "o", "r">>
H_Leader == <<"L", "e", "a", "d", "e", "r">>
H_Team_Lead == <<"T", "e", "a", "m", " ", "L", "e", "a", "d">>
V_John_Smith == <<"J", "o", "h", "n", " ", "S", "m", "i", "t", "h">>
V_JOHN == <<"J", "O", "H", "N">>
V_Big_John == <<"B", "i", "g", " ", "J", "o", "h", "n">>
V_Sarah == <<"S", "a", "r", "a", "h">>
V_John == <<"J", "o", "h", "n">>
V_Mike == <<"M", "i", "k", "e">>
D_01_01_2024 == <<"0", "1", ".", "0", "1", ".", "2", "0", "2", "4">>
D_02_01_2024 == <<"0", "2", ".", "0", "1", ".", "2", "0", "2", "4">>
D_03_01_2024 == <<"0", "3", ".", "0", "1", ".", "2", "0", "2", "4">>
D_31_02_2024 == <<"3", "1", ".", "0", "2", ".", "2", "0", "2", "4">>
N_Summary == <<"S", "u", "m", "m", "a", "r", "y">>
Q_john == <<"j", "o", "h", "n">>
Q_Sarah == <<"S", "a", "r", "a", "h">>
Q_jo_dot_n == <<"j", "o", ".", "n">>
Q_paren == <<"(">>
Q_nan == <<"n", "a", "n">>
Q_zed == <<"z", "e", "d">>

\* a row of a sheet: the cells under the header row
Row(columns, cells) ==
    [c \in Range(columns) |-> cells[CHOOSE i \in 1..Len(columns) : columns[i] = c]]

Sheet(name, columns, cells) ==
    [name |-> name, columns |-> columns,
     rows |-> [i \in 1..Len(cells) |-> Row(columns, cells[i])]]

Sheet_01_01 ==
    Sheet(D_01_01_2024, <<H_Name, H_Team_Leader>>,
          << <<<<"A", "1">>, V_John_Smith>>, <<<<"A", "2">>, V_Sarah>> >>)

\* two headers qualify; the left one has an empty cell
Sheet_03_01 ==
    Sheet(D_03_01_2024, <<H_Supervisor_Name, H_Team_Leader_Spaced>>,
          << <<V_JOHN, V_Sarah>>, <<NaN, V_JOHN>> >>)

\* no header qualifies
Sheet_02_01_NoColumn ==
    Sheet(D_02_01_2024, <<H_Name, H_Group>>, << <<<<"A", "3">>, V_John>> >>)

\* more rows than the web front end scans for team leaders
Sheet_02_01_Long ==
    Sheet(D_02_01_2024, <<H_Name, H_TEAMLEADER>>,
          [i \in 1..LongSheetRows |->
              <<<<"B", LowerCase[i]>>,
                IF i = 2 THEN NaN
                ELSE IF i <= HeaderScanRows THEN V_Sarah ELSE V_Big_John>>])

\* a name that matches the pattern and is no calendar date
Sheet_31_02 ==
    Sheet(D_31_02_2024, <<H_Name, H_Supervisor>>, << <<<<"A", "6">>, V_John_Smith>> >>)

\* a sheet whose name is no date
Sheet_Summary ==
    Sheet(N_Summary, <<H_Name, H_Supervisor>>, << <<<<"A", "7">>, V_Mike>> >>)

SheetPool ==
    {Sheet_01_01, Sheet_03_01, Sheet_02_01_NoColumn, Sheet_02_01_Long,
     Sheet_31_02, Sheet_Summary}

\* the sheet lists of at most n sheets with distinct names
RECURSIVE SheetLists(_)
SheetLists(n) ==
    IF n = 0 THEN {<<>>}
    ELSE LET shorter == SheetLists(n - 1)
         IN  shorter \cup
             {Append(l, s) : <<l, s>> \in
                 {p \in shorter \X SheetPool :
                     \A i \in 1..Len(p[1]) : p[1][i].name # p[2].name}}

Workbook(sheets) == [exists |-> TRUE, readable |-> TRUE, sheets |-> sheets]

\* a file that is not a workbook
CorruptFile == [exists |-> TRUE, readable |-> FALSE, sheets |-> <<>>]

\* no file chosen yet
NoFile == [exists |-> FALSE, readable |-> FALSE, sheets |-> <<>>]

Files == {Workbook(l) : l \in SheetLists(MaxSheets) \ {<<>>}} \cup {CorruptFile}

Names == {Q_john, Q_Sarah, Q_jo_dot_n, Q_paren, Q_nan, Q_zed}

\* requested ranges <<start_date, end_date>>: the whole span, one day, an
\* end before the start, and a start or an end that is no calendar date
Ranges ==
    {<<D_01_01_2024, D_03_01_2024>>, <<D_02_01_2024, D_02_01_2024>>,
     <<D_01_01_2024, D_02_01_2024>>, <<D_02_01_2024, D_03_01_2024>>,
     <<D_03_01_2024, D_01_01_2024>>, <<D_31_02_2024, D_03_01_2024>>,
     <<D_01_01_2024, D_31_02_2024>>}

\* header lists for the column resolver: distinct headers (pandas renames a
\* repeated header), at most MaxCols of them
HeaderPool ==
    {H_Name, H_Group, H_Leader, H_Team_Lead, H_Team_Leader, H_Supervisor_Name,
     H_Team_Leader_Spaced, H_TEAMLEADER, H_Supervisor}

RECURSIVE HeaderLists(_)
HeaderLists(n) ==
    IF n = 0 THEN {<<>>}
    ELSE LET shorter == HeaderLists(n - 1)
         IN  shorter \cup
             {Append(l, h) : <<l, h>> \in
                 {p \in shorter \X HeaderPool : p[2] \notin Range(p[1])}}

\* sheet names for the classifier: two names of the date form with one
\* character replaced, cut short, or with text before or after
Replaced(name) ==
    {[name EXCEPT ![i] = c] : i \in 1..Len(name), c \in {"x", ".", "5", " ", "\n"}}

CutShort(name) == {SubSeq(name, 1, k) : k \in 0..Len(name)}

SheetNameInputs ==
    {before \o middle \o after :
        before \in {<<>>, <<"x">>, <<"5">>, <<"\n">>},
        middle \in Replaced(D_01_01_2024) \cup Replaced(D_31_02_2024)
                   \cup CutShort(D_01_01_2024) \cup {N_Summary},
        after \in {<<>>, <<"\n">>, <<"x">>, <<"5">>, <<" ">>, <<"\n", "\n">>}}

(***************************************************************************)
(* Outcomes.  msg is what the operation shows the user (a dialog of the    *)
(* desktop program, st.error or the returned "error" of the web program);  *)
(* raised says an exception was raised inside the operation, escaped that  *)
(* it reached the caller; reads lists the sheets read with pd.read_excel.  *)
(***************************************************************************)
Msg(kind, text) == [kind |-> kind, text |-> text]

NoMsg == Msg("none", "")

\* start_dt <= self.parse_date(sheet) <= end_dt
in_range(start_dt, sheet_dt, end_dt) == start_dt <= sheet_dt /\ sheet_dt <= end_dt

(***************************************************************************)
(* The desktop processor.                                                  *)
(***************************************************************************)

\* mutant: the rightmost qualifying header (team_leader_cols[-1])
team_leader_col_rightmost(columns) ==
    LET cols == team_leader_cols(columns)
    IN  IF cols = <<>> THEN [found |-> FALSE, col |-> <<>>]
        ELSE [found |-> TRUE, col |-> cols[Len(cols)]]

\* team_leader_cols = [...]; if not team_leader_cols: ...; team_leader_cols[0]
team_leader_col(columns) ==
    LET cols == team_leader_cols(columns)
    IN  IF cols = <<>> THEN [found |-> FALSE, col |-> <<>>]
        ELSE [found |-> TRUE, col |-> cols[1]]

\* get_team_leaders(df): set(df[team_leader_col].dropna().astype(str).unique())
get_team_leaders(df) ==
    LET tl == team_leader_col(df.columns)
    IN  IF ~tl.found THEN {}
        ELSE {astype_str(df.rows[i][tl.col]) :
                 i \in {j \in 1..Len(df.rows) : df.rows[j][tl.col] # NaN}}

\* list.sort(key=...) is stable: a name goes after the names that are not later
RECURSIVE insert_by_date(_, _)
insert_by_date(sorted, name) ==
    IF sorted = <<>> THEN <<name>>
    ELSE IF parse_date(name).val < parse_date(sorted[Len(sorted)]).val
         THEN Append(insert_by_date(SubSeq(sorted, 1, Len(sorted) - 1), name),
                     sorted[Len(sorted)])
         ELSE Append(sorted, name)

\* self.date_sheets.sort(key=lambda x: self.parse_date(x)), every key computed
RECURSIVE sort_by_date(_)
sort_by_date(names) ==
    IF names = <<>> THEN <<>>
    ELSE insert_by_date(sort_by_date(SubSeq(names, 1, Len(names) - 1)),
                        names[Len(names)])

\* the keys are computed before the list is reordered: a key that raises leaves it as it was
sort_raises(names) == \E i \in 1..Len(names) : ~parse_date(names[i]).ok

\* the for loop of process_workbook: self.team_leaders.update(get_team_leaders(df))
collect_team_leaders(file, sheets, old_team_leaders) ==
    old_team_leaders \cup
        UNION {get_team_leaders(read_excel(file, sheets[i]).val) : i \in 1..Len(sheets)}

\* mutant: no early return when the workbook has no date sheet
desktop_process_workbook_try_unchecked(file, old_date_sheets, old_team_leaders) ==
    IF ~ExcelFile(file).ok
    THEN [ok |-> FALSE, date_sheets |-> old_date_sheets,
          team_leaders |-> old_team_leaders, ret |-> FALSE, msg |-> NoMsg,
          reads |-> <<>>]
    ELSE
      LET found == SelectSeq(sheet_names(file), is_date_sheet)
      IN  IF sort_raises(found)
          THEN [ok |-> FALSE, date_sheets |-> found,
                team_leaders |-> old_team_leaders, ret |-> FALSE, msg |-> NoMsg,
                reads |-> <<>>]
          ELSE
            LET sorted == sort_by_date(found)
                leaders == collect_team_leaders(file, sorted, old_team_leaders)
            IN  IF leaders = {}
                THEN [ok |-> TRUE, date_sheets |-> sorted, team_leaders |-> leaders,
                      ret |-> FALSE,
                      msg |-> Msg("error", "No team leaders found in any sheets"),
                      reads |-> sorted]
                ELSE [ok |-> TRUE, date_sheets |-> sorted, team_leaders |-> leaders,
                      ret |-> TRUE, msg |-> NoMsg, reads |-> sorted]

\* the try block of process_workbook
desktop_process_workbook_try(file, old_date_sheets, old_team_leaders) ==
    IF ~ExcelFile(file).ok
    THEN [ok |-> FALSE, date_sheets |-> old_date_sheets,
          team_leaders |-> old_team_leaders, ret |-> FALSE, msg |-> NoMsg,
          reads |-> <<>>]
    ELSE
      LET found == SelectSeq(sheet_names(file), is_date_sheet)
      IN  IF found = <<>>
          THEN [ok |-> TRUE, date_sheets |-> found,
                team_leaders |-> old_team_leaders, ret |-> FALSE,
                msg |-> Msg("error", "No sheets found with date format dd.mm.yyyy"),
                reads |-> <<>>]
          ELSE IF sort_raises(found)
          THEN [ok |-> FALSE, date_sheets |-> found,
                team_leaders |-> old_team_leaders, ret |-> FALSE, msg |-> NoMsg,
                reads |-> <<>>]
          ELSE
            LET sorted == sort_by_date(found)
                leaders == collect_team_leaders(file, sorted, old_team_leaders)
            IN  IF leaders = {}
                THEN [ok |-> TRUE, date_sheets |-> sorted, team_leaders |-> leaders,
                      ret |-> FALSE,
                      msg |-> Msg("error", "No team leaders found in any sheets"),
                      reads |-> sorted]
                ELSE [ok |-> TRUE, date_sheets |-> sorted, team_leaders |-> leaders,
                      ret |-> TRUE, msg |-> NoMsg, reads |-> sorted]

\* process_workbook: except Exception shows the error and returns False
desktop_process_workbook(file, old_date_sheets, old_team_leaders) ==
    LET t == desktop_process_workbook_try(file, old_date_sheets, old_team_leaders)
    IN  [date_sheets |-> t.date_sheets, team_leaders |-> t.team_leaders,
         ret |-> IF t.ok THEN t.ret ELSE FALSE,
         msg |-> IF t.ok THEN t.msg ELSE Msg("error", "Error processing workbook"),
         raised |-> ~t.ok, escaped |-> FALSE, reads |-> t.reads]

\* mutant: a sheet without a supervisor column raises (df['Team Leader'] on a
\* sheet that has no such column) instead of being skipped
filter_sheet_strict(df, sheet, team_leader) ==
    LET tl == team_leader_col(df.columns)
    IN  IF ~tl.found \/ ~re_compile_ok(team_leader)
        THEN [ok |-> FALSE, frames |-> <<>>]
        ELSE
          LET filtered ==
                  [columns |-> df.columns,
                   rows |-> SelectSeq(df.rows,
                                LAMBDA r : str_contains(r[tl.col], team_leader))]
          IN  [ok |-> TRUE,
               frames |-> IF empty(filtered) THEN <<>>
                          ELSE <<add_source_sheet(filtered, sheet)>>]

\* the body of the for loop of filter_data, for one sheet that was read
filter_sheet(df, sheet, team_leader) ==
    LET tl == team_leader_col(df.columns)
    IN  IF ~tl.found THEN [ok |-> TRUE, frames |-> <<>>]
        ELSE IF ~re_compile_ok(team_leader) THEN [ok |-> FALSE, frames |-> <<>>]
        ELSE
          LET filtered ==
                  [columns |-> df.columns,
                   rows |-> SelectSeq(df.rows,
                                LAMBDA r : str_contains(r[tl.col], team_leader))]
          IN  [ok |-> TRUE,
               frames |-> IF empty(filtered) THEN <<>>
                          ELSE <<add_source_sheet(filtered, sheet)>>]

\* for sheet in filtered_sheets: ... all_data.append(filtered)
RECURSIVE desktop_filter_loop(_, _, _, _, _)
desktop_filter_loop(sheets, file, team_leader, all_data, reads) ==
    IF sheets = <<>> THEN [ok |-> TRUE, all_data |-> all_data, reads |-> reads]
    ELSE
      LET sheet == Head(sheets)
          rd == read_excel(file, sheet)
      IN  IF ~rd.ok THEN [ok |-> FALSE, all_data |-> all_data, reads |-> reads]
          ELSE
            LET one == filter_sheet(rd.val, sheet, team_leader)
            IN  IF ~one.ok
                THEN [ok |-> FALSE, all_data |-> all_data,
                      reads |-> Append(reads, sheet)]
                ELSE desktop_filter_loop(Tail(sheets), file, team_leader,
                                         all_data \o one.frames,
                                         Append(reads, sheet))

\* the try block of filter_data
desktop_filter_data_try(sheets, file, team_leader, start_date, end_date) ==
    LET start_dt == parse_date(start_date)
        end_dt == parse_date(end_date)
        failed == [ok |-> FALSE, result |-> EmptyDataFrame, msg |-> NoMsg,
                   reads |-> <<>>]
    IN  IF ~start_dt.ok \/ ~end_dt.ok THEN failed
        ELSE IF \E i \in 1..Len(sheets) : ~parse_date(sheets[i]).ok THEN failed
        ELSE
          LET filtered_sheets ==
                  SelectSeq(sheets,
                      LAMBDA sh : in_range(start_dt.val, parse_date(sh).val,
                                           end_dt.val))
          IN  IF filtered_sheets = <<>>
              THEN [ok |-> TRUE, result |-> EmptyDataFrame,
                    msg |-> Msg("warning",
                                "No sheets found in the specified date range"),
                    reads |-> <<>>]
              ELSE
                LET loop == desktop_filter_loop(filtered_sheets, file,
                                                team_leader, <<>>, <<>>)
                IN  IF ~loop.ok
                    THEN [failed EXCEPT !.reads = loop.reads]
                    ELSE IF loop.all_data = <<>>
                    THEN [ok |-> TRUE, result |-> EmptyDataFrame,
                          msg |-> Msg("info", "No data found for team leader"),
                          reads |-> loop.reads]
                    ELSE [ok |-> TRUE, result |-> concat(loop.all_data),
                          msg |-> NoMsg, reads |-> loop.reads]

\* mutant: filter_data without its except clause
desktop_filter_data_uncaught(sheets, file, team_leader, start_date, end_date) ==
    LET t == desktop_filter_data_try(sheets, file, team_leader, start_date, end_date)
    IN  [result |-> t.result, msg |-> t.msg, raised |-> ~t.ok, escaped |-> ~t.ok,
         reads |-> t.reads]

\* filter_data: except Exception shows the error and returns an empty DataFrame
desktop_filter_data(sheets, file, team_leader, start_date, end_date) ==
    LET t == desktop_filter_data_try(sheets, file, team_leader, start_date, end_date)
    IN  [result |-> IF t.ok THEN t.result ELSE EmptyDataFrame,
         msg |-> IF t.ok THEN t.msg ELSE Msg("error", "Error filtering data"),
         raised |-> ~t.ok, escaped |-> FALSE, reads |-> t.reads]

(***************************************************************************)
(* create_summary_tables: one sheet "Summary", the headers in row 1 (bold  *)
(* white on dark blue), the rows beneath, each column as wide as           *)
(* (longest text + 2) * 1.2, here in tenths of a unit; wb.save raises when *)
(* the destination cannot be written.                                      *)
(***************************************************************************)
NothingWritten == [title |-> "", cells |-> <<>>, widths |-> <<>>, header_fill |-> ""]

\* len(str(cell.value))
text_length(value) == Len(astype_str(value))

RECURSIVE max_length(_)
max_length(column) ==
    IF column = <<>> THEN 0
    ELSE LET rest == max_length(Tail(column))
             here == text_length(Head(column))
         IN  IF here > rest THEN here ELSE rest

\* mutant: the data rows are written from row 1 on (enumerate(..., 1)), over the headers
summary_sheet_from_row_1(filtered_data) ==
    LET headers == filtered_data.columns
        cells == [r \in 1..Len(filtered_data.rows) |->
                     [c \in 1..Len(headers) |-> filtered_data.rows[r][headers[c]]]]
    IN  [title |-> "Summary", cells |-> cells,
         widths |-> [c \in 1..Len(headers) |->
                        (max_length([r \in 1..Len(cells) |-> cells[r][c]]) + 2) * 12],
         header_fill |-> "FF003366"]

summary_sheet(filtered_data) ==
    LET headers == filtered_data.columns
        cells == <<headers>> \o
                 [r \in 1..Len(filtered_data.rows) |->
                     [c \in 1..Len(headers) |-> filtered_data.rows[r][headers[c]]]]
    IN  [title |-> "Summary", cells |-> cells,
         widths |-> [c \in 1..Len(headers) |->
                        (max_length([r \in 1..Len(cells) |-> cells[r][c]]) + 2) * 12],
         header_fill |-> "FF003366"]

create_summary_tables(filtered_data, writable) ==
    IF empty(filtered_data)
    THEN [ret |-> FALSE, msg |-> NoMsg, raised |-> FALSE, escaped |-> FALSE,
          written |-> NothingWritten]
    ELSE IF ~writable
    THEN [ret |-> FALSE, msg |-> Msg("error", "Error creating summary tables"),
          raised |-> TRUE, escaped |-> FALSE, written |-> NothingWritten]
    ELSE [ret |-> TRUE, msg |-> NoMsg, raised |-> FALSE, escaped |-> FALSE,
          written |-> summary_sheet(filtered_data)]

(***************************************************************************)
(* The web processor.                                                      *)
(***************************************************************************)
NoMeta == [date_sheets |-> <<>>, start_date |-> 0, end_date |-> 0, team_leaders |-> {}]

\* pd.read_excel(xls, sheet_name=sheet, nrows=10)
read_excel_nrows(file, sheet, nrows) ==
    LET df == read_excel(file, sheet).val
    IN  [columns |-> df.columns,
         rows |-> SubSeq(df.rows, 1, IF Len(df.rows) < nrows THEN Len(df.rows) ELSE nrows)]

\* get_team_leaders(file_path): every date sheet, in workbook order
web_get_team_leaders(file) ==
    LET sheets == SelectSeq(sheet_names(file), is_date_sheet)
    IN  UNION {get_team_leaders(read_excel_nrows(file, sheets[i], HeaderScanRows)) :
                  i \in 1..Len(sheets)}

\* process_workbook: the returned dict; "error" in it is ret = FALSE with msg
web_process_workbook(file) ==
    LET failed == [ret |-> FALSE, msg |-> Msg("error", "Error processing workbook"),
                   raised |-> TRUE, escaped |-> FALSE, reads |-> <<>>,
                   meta |-> NoMeta]
    IN  IF ~ExcelFile(file).ok THEN failed
        ELSE
          LET found == SelectSeq(sheet_names(file), is_date_sheet)
          IN  IF found = <<>>
              THEN [failed EXCEPT
                      !.msg = Msg("error", "No sheets found with date format dd.mm.yyyy"),
                      !.raised = FALSE]
              ELSE IF sort_raises(found) THEN failed
              ELSE
                LET sorted == sort_by_date(found)
                IN  [ret |-> TRUE, msg |-> NoMsg, raised |-> FALSE,
                     escaped |-> FALSE, reads |-> found,
                     meta |-> [date_sheets |-> sorted,
                               start_date |-> parse_date(sorted[1]).val,
                               end_date |-> parse_date(sorted[Len(sorted)]).val,
                               team_leaders |-> web_get_team_leaders(file)]]

\* for sheet in xls.sheet_names: ... all_data.append(filtered)
RECURSIVE web_filter_loop(_, _, _, _, _, _, _)
web_filter_loop(sheets, file, team_leader, start_date, end_date, all_data, reads) ==
    IF sheets = <<>> THEN [ok |-> TRUE, all_data |-> all_data, reads |-> reads]
    ELSE
      LET sheet == Head(sheets)
          rest == Tail(sheets)
      IN  IF ~is_date_sheet(sheet)
          THEN web_filter_loop(rest, file, team_leader, start_date, end_date,
                               all_data, reads)
          ELSE
            LET sheet_date == parse_date(sheet)
                start_dt == parse_date(start_date)
                end_dt == parse_date(end_date)
            IN  IF ~sheet_date.ok \/ ~start_dt.ok \/ ~end_dt.ok
                THEN [ok |-> FALSE, all_data |-> all_data, reads |-> reads]
                ELSE IF ~in_range(start_dt.val, sheet_date.val, end_dt.val)
                THEN web_filter_loop(rest, file, team_leader, start_date, end_date,
                                     all_data, reads)
                ELSE
                  LET one == filter_sheet(read_excel(file, sheet).val, sheet,
                                          team_leader)
                  IN  IF ~one.ok
                      THEN [ok |-> FALSE, all_data |-> all_data,
                            reads |-> Append(reads, sheet)]
                      ELSE web_filter_loop(rest, file, team_leader, start_date,
                                           end_date, all_data \o one.frames,
                                           Append(reads, sheet))

\* filter_data: except Exception calls st.error and returns an empty DataFrame
web_filter_data(file, team_leader, start_date, end_date) ==
    IF ~ExcelFile(file).ok
    THEN [result |-> EmptyDataFrame, msg |-> Msg("error", "Error filtering data"),
          raised |-> TRUE, escaped |-> FALSE, reads |-> <<>>]
    ELSE
      LET loop == web_filter_loop(sheet_names(file), file, team_leader,
                                  start_date, end_date, <<>>, <<>>)
      IN  IF ~loop.ok
          THEN [result |-> EmptyDataFrame,
                msg |-> Msg("error", "Error filtering data"),
                raised |-> TRUE, escaped |-> FALSE, reads |-> loop.reads]
          ELSE [result |-> IF loop.all_data = <<>> THEN EmptyDataFrame
                           ELSE concat(loop.all_data),
                msg |-> NoMsg, raised |-> FALSE, escaped |-> FALSE,
                reads |-> loop.reads]

(***************************************************************************)
(* The state machine.  Each program is one synchronous caller.  A handler  *)
(* picks a file and runs process_workbook on it (browse_file; main);       *)
(* another runs filter_data on the file the program holds and, in the      *)
(* desktop program, create_summary_tables on what filter_data returned     *)
(* (process_data; main).  The requested name and dates are free inputs of  *)
(* filter_data.                                                            *)
(***************************************************************************)
NoCall ==
    [op |-> "none", team_leader |-> <<>>, start_date |-> <<>>, end_date |-> <<>>,
     writable |-> FALSE, ret |-> FALSE, result |-> EmptyDataFrame, msg |-> NoMsg,
     raised |-> FALSE, escaped |-> FALSE, reads |-> <<>>, meta |-> NoMeta,
     written |-> NothingWritten]

NoPure == [fn |-> "none", arg |-> <<>>, flag |-> FALSE, col |-> <<>>]

Init ==
    /\ app \in {"desktop", "web"}
    /\ file_path = NoFile
    /\ date_sheets = <<>>
    /\ team_leaders = {}
    /\ pc = "idle"
    /\ last = NoCall
    /\ pure = NoPure

\* browse_file: self.file_path = file_path; self.processor.process_workbook(file_path)
DesktopProcessWorkbook(file) ==
    /\ app = "desktop"
    /\ pc = "idle"
    /\ \E o \in {desktop_process_workbook(file, date_sheets, team_leaders)} :
           /\ file_path' = file
           /\ date_sheets' = o.date_sheets
           /\ team_leaders' = o.team_leaders
           /\ last' = [NoCall EXCEPT !.op = "process_workbook", !.ret = o.ret,
                                     !.msg = o.msg, !.raised = o.raised,
                                     !.escaped = o.escaped, !.reads = o.reads]
    /\ pc' = "returned"
    /\ UNCHANGED <<app, pure>>

\* process_data: self.processor.filter_data(self.file_path, team_leader, start_date, end_date)
DesktopFilterData(team_leader, start_date, end_date) ==
    /\ app = "desktop"
    /\ pc = "idle"
    /\ file_path.exists
    /\ \E o \in {desktop_filter_data(date_sheets, file_path, team_leader,
                                     start_date, end_date)} :
           last' = [NoCall EXCEPT !.op = "filter_data",
                                  !.team_leader = team_leader,
                                  !.start_date = start_date,
                                  !.end_date = end_date,
                                  !.ret = ~empty(o.result), !.result = o.result,
                                  !.msg = o.msg, !.raised = o.raised,
                                  !.escaped = o.escaped, !.reads = o.reads]
    /\ pc' = "returned"
    /\ UNCHANGED <<app, file_path, date_sheets, team_leaders, pure>>

\* process_data: self.processor.create_summary_tables(filtered_data, self.output_path)
DesktopCreateSummaryTables(writable) ==
    /\ app = "desktop"
    /\ pc = "returned"
    /\ last.op = "filter_data"
    /\ \E o \in {create_summary_tables(last.result, writable)} :
           last' = [last EXCEPT !.op = "create_summary_tables",
                                !.writable = writable, !.ret = o.ret,
                                !.msg = o.msg, !.raised = o.raised,
                                !.escaped = o.escaped, !.reads = <<>>,
                                !.written = o.written]
    /\ UNCHANGED <<app, file_path, date_sheets, team_leaders, pc, pure>>

\* main: result = processor.process_workbook(tmp_file_path)
WebProcessWorkbook(file) ==
    /\ app = "web"
    /\ pc = "idle"
    /\ \E o \in {web_process_workbook(file)} :
           /\ file_path' = file
           /\ last' = [NoCall EXCEPT !.op = "process_workbook", !.ret = o.ret,
                                     !.msg = o.msg, !.raised = o.raised,
                                     !.escaped = o.escaped, !.reads = o.reads,
                                     !.meta = o.meta]
    /\ pc' = "returned"
    /\ UNCHANGED <<app, date_sheets, team_leaders, pure>>

\* main: filtered_data = processor.filter_data(tmp_file_path, team_leader, ...)
WebFilterData(team_leader, start_date, end_date) ==
    /\ app = "web"
    /\ pc = "idle"
    /\ file_path.exists
    /\ \E o \in {web_filter_data(file_path, team_leader, start_date, end_date)} :
           last' = [NoCall EXCEPT !.op = "filter_data",
                                  !.team_leader = team_leader,
                                  !.start_date = start_date,
                                  !.end_date = end_date,
                                  !.ret = ~empty(o.result), !.result = o.result,
                                  !.msg = o.msg, !.raised = o.raised,
                                  !.escaped = o.escaped, !.reads = o.reads]
    /\ pc' = "returned"
    /\ UNCHANGED <<app, file_path, date_sheets, team_leaders, pure>>

\* the handler ends and the program waits for the next event
Return ==
    /\ pc = "returned"
    /\ pc' = "idle"
    /\ last' = NoCall
    /\ UNCHANGED <<app, file_path, date_sheets, team_leaders, pure>>

Next ==
    \/ \E file \in Files : DesktopProcessWorkbook(file)
    \/ \E team_leader \in Names, range \in Ranges :
          DesktopFilterData(team_leader, range[1], range[2])
    \/ \E writable \in BOOLEAN : DesktopCreateSummaryTables(writable)
    \/ \E file \in Files : WebProcessWorkbook(file)
    \/ \E team_leader \in Names, range \in Ranges :
          WebFilterData(team_leader, range[1], range[2])
    \/ Return

Spec == Init /\ [][Next]_vars

(***************************************************************************)
(* The pure helpers, applied to inputs of their own.                       *)
(***************************************************************************)
InitPure ==
    /\ app = "none"
    /\ file_path = NoFile
    /\ date_sheets = <<>>
    /\ team_leaders = {}
    /\ pc = "idle"
    /\ last = NoCall
    /\ pure = NoPure

Classify(sheet_name) ==
    /\ pure = NoPure
    /\ pure' = [fn |-> "is_date_sheet", arg |-> sheet_name,
                flag |-> is_date_sheet(sheet_name), col |-> <<>>]
    /\ UNCHANGED <<app, file_path, date_sheets, team_leaders, pc, last>>

Resolve(columns) ==
    /\ pure = NoPure
    /\ \E r \in {team_leader_col(columns)} :
           pure' = [fn |-> "team_leader_col", arg |-> columns,
                    flag |-> r.found, col |-> r.col]
    /\ UNCHANGED <<app, file_path, date_sheets, team_leaders, pc, last>>

NextPure ==
    \/ \E sheet_name \in SheetNameInputs : Classify(sheet_name)
    \/ \E columns \in HeaderLists(MaxCols) : Resolve(columns)

SpecPure == InitPure /\ [][NextPure]_vars

(***************************************************************************)
(* The vocabulary of the claims, stated apart from the operators above.    *)
(***************************************************************************)
Claim_Lower(c) ==
    IF c \in Range(UpperCase)
    THEN LowerCase[CHOOSE i \in 1..Len(UpperCase) : UpperCase[i] = c]
    ELSE c

\* text contains part as a literal substring, letter case ignored
Claim_Contains(text, part) ==
    \E k \in 0..(Len(text) - Len(part)) :
        \A i \in 1..Len(part) : Claim_Lower(text[k + i]) = Claim_Lower(part[i])

\* two digits, a dot, two digits, a dot, four digits and nothing else
Claim_IsDateName(name) ==
    /\ Len(name) = 10
    /\ name[3] = "." /\ name[6] = "."
    /\ \A i \in {1, 2, 4, 5, 7, 8, 9, 10} : name[i] \in Digits

Claim_Qualifies(header) == \E k \in 1..Len(Terms) : Claim_Contains(header, Terms[k])

\* the position of the leftmost qualifying header, 0 when there is none
Claim_ColumnIndex(columns) ==
    LET q == {i \in 1..Len(columns) : Claim_Qualifies(columns[i])}
    IN  IF q = {} THEN 0 ELSE CHOOSE i \in q : \A j \in q : i <= j

Claim_DateSheets(file) ==
    {i \in 1..Len(file.sheets) : Claim_IsDateName(file.sheets[i].name)}

\* the workbook is readable, every date sheet names a calendar date, and so do the requested dates
Claim_ValidInputs(file, start_date, end_date) ==
    /\ file.readable
    /\ \A i \in Claim_DateSheets(file) : parse_date(file.sheets[i].name).ok
    /\ parse_date(start_date).ok /\ parse_date(end_date).ok

Claim_InRange(name, start_date, end_date) ==
    /\ parse_date(name).ok /\ parse_date(start_date).ok /\ parse_date(end_date).ok
    /\ parse_date(start_date).val <= parse_date(name).val
    /\ parse_date(name).val <= parse_date(end_date).val

\* the row of the sheet is a row of the result, tagged with the sheet's name
Claim_RowInResult(result, sheet, row) ==
    \E k \in 1..Len(result.rows) :
        /\ SourceSheet \in DOMAIN result.rows[k]
        /\ result.rows[k][SourceSheet] = sheet.name
        /\ \A c \in DOMAIN row \ {SourceSheet} :
              c \in DOMAIN result.rows[k] /\ result.rows[k][c] = row[c]

\* the row's supervisor cell holds a text that contains the requested name
Claim_RowSelected(sheet, row, team_leader) ==
    LET k == Claim_ColumnIndex(sheet.columns)
    IN  /\ k # 0
        /\ row[sheet.columns[k]] # NaN
        /\ Claim_Contains(row[sheet.columns[k]], team_leader)

Returned(op) == pc = "returned" /\ last.op = op

(***************************************************************************)
(* The claims.                                                             *)
(***************************************************************************)

Claim_SupervisorCellFilled(sheet, row) ==
    Claim_ColumnIndex(sheet.columns) # 0
    => row[sheet.columns[Claim_ColumnIndex(sheet.columns)]] # NaN

\* C1: with a readable workbook whose date sheets all name calendar dates and
\* a valid range, a row of a date sheet whose supervisor cell is not empty is
\* in the result of filter_data if and only if the sheet's date lies in
\* [start, end], both ends included, and the row's supervisor cell contains
\* the requested name as a literal substring, letter case ignored (the name
\* is never read as a pattern).
C1_RowIncludedIffInRangeAndLiteralMatch ==
    (Returned("filter_data")
       /\ Claim_ValidInputs(file_path, last.start_date, last.end_date))
    => \A i \in Claim_DateSheets(file_path) :
          LET sheet == file_path.sheets[i]
          IN  \A r \in 1..Len(sheet.rows) :
                  Claim_SupervisorCellFilled(sheet, sheet.rows[r])
                  => (Claim_RowInResult(last.result, sheet, sheet.rows[r])
                      <=> (/\ Claim_InRange(sheet.name, last.start_date,
                                            last.end_date)
                           /\ Claim_RowSelected(sheet, sheet.rows[r],
                                                last.team_leader)))

Claim_RowPosition(file, row) ==
    LET sheet == file.sheets[CHOOSE i \in 1..Len(file.sheets) :
                                 file.sheets[i].name = row[SourceSheet]]
    IN  CHOOSE r \in 1..Len(sheet.rows) :
            \A c \in DOMAIN sheet.rows[r] \ {SourceSheet} : row[c] = sheet.rows[r][c]

\* C2: the rows of the result of filter_data are grouped by source sheet in
\* ascending sheet-date order, whatever the order of the sheets in the
\* workbook, and the rows of one sheet keep their order in the sheet; for the
\* desktop processor and for the web processor.
C2_ResultInAscendingSheetDateOrder ==
    Returned("filter_data")
    => \A i, j \in 1..Len(last.result.rows) :
          i < j =>
            LET a == last.result.rows[i]
                b == last.result.rows[j]
            IN  /\ parse_date(a[SourceSheet]).val <= parse_date(b[SourceSheet]).val
                /\ a[SourceSheet] = b[SourceSheet]
                     => Claim_RowPosition(file_path, a) < Claim_RowPosition(file_path, b)

\* C3: is_date_sheet(s) is true if and only if the whole of s is two digits,
\* a dot, two digits, a dot and four digits, with nothing before or after.
C3_ClassifierMatchesWholeNameOnly ==
    pure.fn = "is_date_sheet" => (pure.flag <=> Claim_IsDateName(pure.arg))

\* the name 01.01.2024 followed by a line break is classified as a date sheet
C3_TrailingLineBreakAccepted ==
    /\ pure.fn = "is_date_sheet"
    /\ pure.arg = D_01_01_2024 \o <<"\n">>
    /\ pure.flag

\* C4: the supervisor column is the leftmost header whose lower-cased text
\* contains one of the four terms; when no header qualifies none is found
\* and no default column is used.
C4_LeftmostQualifyingHeader ==
    pure.fn = "team_leader_col"
    => LET k == Claim_ColumnIndex(pure.arg)
       IN  IF k = 0 THEN ~pure.flag /\ pure.col = <<>>
           ELSE pure.flag /\ pure.col = pure.arg[k]

\* two headers qualify and the left one is taken
C4_Witness ==
    /\ pure.fn = "team_leader_col"
    /\ pure.arg = <<H_Supervisor_Name, H_Team_Leader>>
    /\ pure.flag /\ pure.col = H_Supervisor_Name

Claim_ColumnlessInRange(file, start_date, end_date) ==
    {file.sheets[i].name : i \in
        {j \in Claim_DateSheets(file) :
            /\ Claim_InRange(file.sheets[j].name, start_date, end_date)
            /\ Claim_ColumnIndex(file.sheets[j].columns) = 0}}

Claim_Without(file, names) ==
    [file EXCEPT !.sheets = SelectSeq(file.sheets, LAMBDA sh : sh.name \notin names)]

\* C5: an in-range date sheet without a supervisor column adds no row and
\* raises no error, and the other sheets are processed as if it were not in
\* the workbook: filter_data returns the same rows, and fails or not, as on
\* the workbook without such sheets.
C5_ColumnlessSheetIsSkipped ==
    (Returned("filter_data") /\ file_path.readable)
    => LET gone == Claim_ColumnlessInRange(file_path, last.start_date, last.end_date)
           other ==
               IF app = "desktop"
               THEN desktop_filter_data(
                        SelectSeq(date_sheets, LAMBDA n : n \notin gone),
                        Claim_Without(file_path, gone), last.team_leader,
                        last.start_date, last.end_date)
               ELSE web_filter_data(Claim_Without(file_path, gone),
                                    last.team_leader, last.start_date,
                                    last.end_date)
       IN  /\ last.result = other.result
           /\ last.raised = other.raised
           /\ \A k \in 1..Len(last.result.rows) :
                 last.result.rows[k][SourceSheet] \notin gone

\* a sheet without the column lies in range beside a sheet whose rows are returned
C5_Witness ==
    /\ Returned("filter_data")
    /\ file_path.readable
    /\ Claim_ColumnlessInRange(file_path, last.start_date, last.end_date) # {}
    /\ ~empty(last.result)
    /\ ~last.raised

\* C6: every row of a result of filter_data has a Source_Sheet field; it holds
\* the name of a date sheet of the workbook whose date lies in the requested
\* range, and the row is a row of that sheet.
C6_SourceSheetNamesTheOrigin ==
    Returned("filter_data")
    => /\ ~empty(last.result) => SourceSheet \in Range(last.result.columns)
       /\ \A k \in 1..Len(last.result.rows) :
             LET row == last.result.rows[k]
             IN  /\ SourceSheet \in DOMAIN row
                 /\ \E i \in Claim_DateSheets(file_path) :
                       LET sheet == file_path.sheets[i]
                       IN  /\ row[SourceSheet] = sheet.name
                           /\ Claim_InRange(sheet.name, last.start_date,
                                            last.end_date)
                           /\ \E r \in 1..Len(sheet.rows) :
                                 \A c \in DOMAIN sheet.rows[r] \ {SourceSheet} :
                                     row[c] = sheet.rows[r][c]

\* rows of two sheets are returned, each tagged with its own sheet
C6_Witness ==
    /\ Returned("filter_data")
    /\ \E j, k \in 1..Len(last.result.rows) :
          /\ last.result.rows[j][SourceSheet] = D_01_01_2024
          /\ last.result.rows[k][SourceSheet] = D_03_01_2024

Claim_SupervisorValues(file) ==
    UNION {LET sheet == file.sheets[i]
               k == Claim_ColumnIndex(sheet.columns)
           IN  IF k = 0 THEN {}
               ELSE {sheet.rows[r][sheet.columns[k]] : r \in 1..Len(sheet.rows)}
                    \ {NaN}
           : i \in Claim_DateSheets(file)}

\* C7: after process_workbook on a workbook whose date sheets all name
\* calendar dates, the desktop processor's team-leader set is exactly the set
\* of supervisor values of that workbook's date sheets, whatever was
\* processed before.
C7_TeamLeadersOfThisWorkbookOnly ==
    (app = "desktop" /\ Returned("process_workbook") /\ file_path.readable
       /\ \A i \in Claim_DateSheets(file_path) :
             parse_date(file_path.sheets[i].name).ok)
    => team_leaders = Claim_SupervisorValues(file_path)

\* C8: when no date sheet of the workbook has a supervisor column,
\* process_workbook ends with an error outcome, in both processors and on
\* every invocation.
C8_NoSupervisorColumnIsAnError ==
    (Returned("process_workbook") /\ file_path.readable
       /\ \A i \in Claim_DateSheets(file_path) :
             Claim_ColumnIndex(file_path.sheets[i].columns) = 0)
    => ~last.ret /\ last.msg.kind = "error"

Claim_NoDateSheets(file) == file.readable /\ Claim_DateSheets(file) = {}

C9_Outcome ==
    (pc = "returned" /\ Claim_NoDateSheets(file_path))
    => /\ last.op = "process_workbook"
            => /\ ~last.ret
               /\ last.msg.kind = "error"
               /\ last.reads = <<>>
               /\ last.meta.team_leaders = {}
       /\ last.op = "filter_data" => empty(last.result) /\ last.reads = <<>>

C9_NothingCollected ==
    (pc' = "returned" /\ last'.op = "process_workbook"
       /\ Claim_NoDateSheets(file_path'))
    => team_leaders' = team_leaders

\* C9: on a workbook without a date sheet, process_workbook ends with an
\* error outcome, reads no sheet and collects no team leader, and a
\* filter_data that follows on that workbook reads no sheet and returns an
\* empty result.
C9_NoDateSheetsStopsProcessing == [] C9_Outcome /\ [][C9_NothingCollected]_vars

\* filter_data has followed a successful run on another workbook and then
\* process_workbook on a workbook without a date sheet
C9_Witness ==
    /\ app = "desktop"
    /\ Returned("filter_data")
    /\ Claim_NoDateSheets(file_path)
    /\ team_leaders # {}
    /\ empty(last.result)

\* C10: no exception leaves process_workbook, filter_data or
\* create_summary_tables: an exception raised inside is reported as an error
\* message and the operation returns its failure value (False, an error
\* result, an empty result).
C10_NoFailureEscapes ==
    pc = "returned"
    => /\ ~last.escaped
       /\ last.raised
            => /\ last.msg.kind = "error"
               /\ ~last.ret
               /\ last.op = "filter_data" => empty(last.result)
               /\ last.op = "create_summary_tables" => last.written = NothingWritten

\* filter_data on a workbook with the sheet 31.02.2024 and a range that starts at 31.02.2024
C10_Witness ==
    /\ Returned("filter_data")
    /\ last.raised
    /\ last.start_date = D_31_02_2024
    /\ \E i \in 1..Len(file_path.sheets) : file_path.sheets[i].name = D_31_02_2024
    /\ last.msg.kind = "error"
    /\ empty(last.result)

\* the rows of the in-range date sheets whose supervisor cell contains the name
Claim_Matches(file, team_leader, start_date, end_date) ==
    UNION {{<<i, r>> : r \in
               {q \in 1..Len(file.sheets[i].rows) :
                   Claim_RowSelected(file.sheets[i], file.sheets[i].rows[q],
                                     team_leader)}}
           : i \in {j \in Claim_DateSheets(file) :
                       Claim_InRange(file.sheets[j].name, start_date, end_date)}}

Claim_SheetsInRange(file, start_date, end_date) ==
    {i \in Claim_DateSheets(file) :
        Claim_InRange(file.sheets[i].name, start_date, end_date)}

\* C11: with a readable workbook whose date sheets all name calendar dates and
\* a valid range, when no row matches (no date sheet lies in the range, or
\* sheets lie in the range and no supervisor cell contains the requested
\* name) filter_data returns an empty result and reports no error: at most a
\* warning or an informational message.
C11_ZeroMatchesIsEmptyAndNoError ==
    (Returned("filter_data")
       /\ Claim_ValidInputs(file_path, last.start_date, last.end_date)
       /\ Claim_Matches(file_path, last.team_leader, last.start_date,
                        last.end_date) = {})
    => /\ empty(last.result)
       /\ ~last.raised
       /\ last.msg.kind \in {"none", "info", "warning"}

\* process_workbook of the other processor, newly constructed, on the same workbook
Claim_OtherProcessWorkbook ==
    IF app = "desktop"
    THEN LET w == web_process_workbook(file_path)
         IN  [ret |-> w.ret, kind |-> w.msg.kind, team_leaders |-> w.meta.team_leaders]
    ELSE LET d == desktop_process_workbook(file_path, <<>>, {})
         IN  [ret |-> d.ret, kind |-> d.msg.kind, team_leaders |-> d.team_leaders]

\* filter_data of the other processor on the same workbook, name and range
Claim_OtherFilterData ==
    IF app = "desktop"
    THEN web_filter_data(file_path, last.team_leader, last.start_date,
                         last.end_date).result
    ELSE desktop_filter_data(
             desktop_process_workbook(file_path, <<>>, {}).date_sheets,
             file_path, last.team_leader, last.start_date, last.end_date).result

\* C12: the two processors agree: on the same workbook process_workbook
\* reports the same success or error kind and, on success, the same set of
\* team leaders, and on the same workbook, name and range filter_data returns
\* the same result: the same rows in the same order with the same
\* Source_Sheet values.
C12_FrontEndsAgree ==
    /\ Returned("process_workbook")
         => LET other == Claim_OtherProcessWorkbook
                mine == IF app = "desktop" THEN team_leaders
                        ELSE last.meta.team_leaders
            IN  /\ last.ret = other.ret
                /\ last.msg.kind = other.kind
                /\ last.ret => mine = other.team_leaders
    /\ Returned("filter_data") => last.result = Claim_OtherFilterData

\* the sheet holds the headers of the result in row 1 and its rows beneath
Claim_SheetHolds(written, result) ==
    LET n == Len(result.rows)
        k == Len(result.columns)
    IN  /\ written.title = "Summary"
        /\ Len(written.cells) = n + 1
        /\ \A r \in 1..(n + 1) : Len(written.cells[r]) = k
        /\ \A c \in 1..k : written.cells[1][c] = result.columns[c]
        /\ \A r \in 1..n : \A c \in 1..k :
              written.cells[r + 1][c] = result.rows[r][result.columns[c]]

\* C13: for a non-empty result with n rows and k columns
\* create_summary_tables writes one sheet whose row 1 holds the k headers in
\* the order of the result and whose row r+1, column c holds the value of
\* row r, column c of the result, and returns True; when the destination
\* cannot be written it returns False, reports an error and saves nothing.
C13_SummaryHoldsTheResultVerbatim ==
    (Returned("create_summary_tables") /\ ~empty(last.result))
    => IF last.writable
       THEN /\ last.ret
            /\ last.msg.kind = "none"
            /\ Claim_SheetHolds(last.written, last.result)
       ELSE /\ ~last.ret
            /\ last.msg.kind = "error"
            /\ last.written = NothingWritten

\* a result of two sheets with different headers, so with empty cells, is written
C13_Witness ==
    /\ Returned("create_summary_tables")
    /\ last.writable /\ last.ret
    /\ Len(last.result.rows) >= 2
    /\ Len(last.result.columns) >= 5
    /\ \E r \in 1..Len(last.result.rows) : \E c \in 1..Len(last.result.columns) :
          /\ last.result.rows[r][last.result.columns[c]] = NaN
          /\ last.written.cells[r + 1][c] = NaN

\* the supervisor cell of a row of the result, read in the sheet the row came from
Claim_SupervisorCell(file, row) ==
    LET sheet == file.sheets[CHOOSE i \in 1..Len(file.sheets) :
                                 file.sheets[i].name = row[SourceSheet]]
    IN  row[sheet.columns[Claim_ColumnIndex(sheet.columns)]]

\* C14: no row whose supervisor cell is empty is in the result of
\* filter_data, whatever the requested name, "nan" included.
C14_EmptySupervisorCellNeverSelected ==
    Returned("filter_data")
    => \A k \in 1..Len(last.result.rows) :
          Claim_SupervisorCell(file_path, last.result.rows[k]) # NaN

\* process_workbook succeeds on the workbook: it is readable, it has date
\* sheets and they all name calendar dates
Claim_Processed(file) ==
    /\ file.readable
    /\ Claim_DateSheets(file) # {}
    /\ \A i \in Claim_DateSheets(file) : parse_date(file.sheets[i].name).ok

\* the team leaders the program offers after process_workbook on the workbook
\* it holds: the desktop dropdown shows self.processor.team_leaders, the web
\* selectbox shows result["team_leaders"]
Claim_Offered ==
    IF app = "desktop" THEN team_leaders
    ELSE web_process_workbook(file_path).meta.team_leaders

\* the requested range runs from the earliest to the latest date sheet
Claim_WholeRange(file, start_date, end_date) ==
    /\ parse_date(start_date).ok /\ parse_date(end_date).ok
    /\ \E i \in Claim_DateSheets(file) :
          parse_date(file.sheets[i].name).val = parse_date(start_date).val
    /\ \E i \in Claim_DateSheets(file) :
          parse_date(file.sheets[i].name).val = parse_date(end_date).val
    /\ \A i \in Claim_DateSheets(file) :
          Claim_InRange(file.sheets[i].name, start_date, end_date)

\* C15: after a successful process_workbook, filter_data on the same workbook
\* with an offered team leader as the name and the range from the earliest to
\* the latest date sheet returns a non-empty result, which holds every row
\* whose supervisor cell equals that team leader.
C15_OfferedTeamLeaderIsSelectable ==
    (Returned("filter_data")
       /\ Claim_Processed(file_path)
       /\ last.team_leader \in Claim_Offered
       /\ Claim_WholeRange(file_path, last.start_date, last.end_date))
    => /\ ~empty(last.result)
       /\ \A i \in Claim_DateSheets(file_path) :
             LET sheet == file_path.sheets[i]
                 k == Claim_ColumnIndex(sheet.columns)
             IN  \A r \in 1..Len(sheet.rows) :
                     (k # 0 /\ sheet.rows[r][sheet.columns[k]] = last.team_leader)
                     => Claim_RowInResult(last.result, sheet, sheet.rows[r])

====
